---- MODULE Spec2Model ----
(***************************************************************************)
(* Two telegraf input plugins: iptables (CLI listing -> regex parse ->     *)
(* emit) and nginx_plus (HTTP GET -> JSON decode -> flatten -> emit).      *)
(* Text is a sequence of one-character strings, so that the regular        *)
(* expressions and strings.Split are computed character by character.      *)
(***************************************************************************)
EXTENDS Integers, Sequences, FiniteSets, TLC

\* ------------------------------------------------------------------ bounds
MaxChains == 2
MaxRules == 2
MaxUrls == 2

\* ------------------------------------------------- character classes (RE2)
\* \s of Go's regexp: [\t\n\f\r ]
Space == {" ", "\t", "\n", "\f", "\r"}
\* \d
Digit == {"0", "1", "2", "3", "4", "5", "6", "7", "8", "9"}
Lower == {"a", "b", "c", "d", "e", "f", "g", "h", "i", "j", "k", "l", "m",
          "n", "o", "p", "q", "r", "s", "t", "u", "v", "w", "x", "y", "z"}
Upper == {"A", "B", "C", "D", "E", "F", "G", "H", "I", "J", "K", "L", "M",
          "N", "O", "P", "Q", "R", "S", "T", "U", "V", "W", "X", "Y", "Z"}
\* \w
Word == Digit \cup Lower \cup Upper \cup {"_"}

\* Length of the longest run of characters of class C that starts at s[i].
RunIn(s, i, C) ==
  (CHOOSE j \in i..(Len(s) + 1) :
      /\ \A k \in i..(j - 1) : s[k] \in C
      /\ (j = Len(s) + 1 \/ s[j] \notin C)) - i

\* Length of the longest run of characters outside class C that starts at s[i].
RunNotIn(s, i, C) ==
  (CHOOSE j \in i..(Len(s) + 1) :
      /\ \A k \in i..(j - 1) : s[k] \notin C
      /\ (j = Len(s) + 1 \/ s[j] \in C)) - i

\* The literal lit stands at s[i..].
LitAt(s, i, lit) ==
  /\ i + Len(lit) - 1 <= Len(s)
  /\ SubSeq(s, i, i + Len(lit) - 1) = lit

\* strings.Split(data, sep) for a separator of one character: the pieces between the separators, empty ones kept;
\* a text without separator is one piece.
Split(data, sep) ==
  LET nl == {i \in 1..Len(data) : data[i] = sep}
      \* position of the k-th separator; 0 and Len(data) + 1 bound the text
      cut(k) == IF k = 0 THEN 0
                ELSE IF k > Cardinality(nl) THEN Len(data) + 1
                ELSE CHOOSE i \in nl : Cardinality({j \in nl : j < i}) = k - 1
  IN [k \in 1..(Cardinality(nl) + 1) |-> SubSeq(data, cut(k - 1) + 1, cut(k) - 1)]
SplitLines(data) == Split(data, "\n")

\* strings.Join(lines, "\n"), used to build the listings the lister returns.
RECURSIVE JoinLines(_)
JoinLines(lines) ==
  IF lines = <<>> THEN <<>>
  ELSE IF Len(lines) = 1 THEN lines[1]
  ELSE lines[1] \o <<"\n">> \o JoinLines(Tail(lines))

\* --------------------------------------------------------------- iptables
errParse == "cannot parse iptables list information"
measurement == "iptables"

LitChain == <<"C", "h", "a", "i", "n">>
LitPkts == <<"p", "k", "t", "s">>
LitBytes == <<"b", "y", "t", "e", "s">>
LitTarget == <<"t", "a", "r", "g", "e", "t">>

\* chainNameRe = ^Chain\s+(\S+) ; FindStringSubmatch: ok and the group.
chainNameRe(line) ==
  LET ws == RunIn(line, 6, Space)
      ns == RunNotIn(line, 6 + ws, Space)
  IN IF LitAt(line, 1, LitChain) /\ ws >= 1 /\ ns >= 1
     THEN [ok |-> TRUE, name |-> SubSeq(line, 6 + ws, 5 + ws + ns)]
     ELSE [ok |-> FALSE, name |-> <<>>]

\* fieldsHeaderRe = ^\s*pkts\s+bytes\s+target ; MatchString.
fieldsHeaderRe(line) ==
  LET p0 == 1 + RunIn(line, 1, Space)
      w1 == RunIn(line, p0 + 4, Space)
      p1 == p0 + 4 + w1
      w2 == RunIn(line, p1 + 5, Space)
      p2 == p1 + 5 + w2
  IN /\ LitAt(line, p0, LitPkts)
     /\ w1 >= 1
     /\ LitAt(line, p1, LitBytes)
     /\ w2 >= 1
     /\ LitAt(line, p2, LitTarget)

\* The comment part of valuesRe, /\*\s*(.+?)\s*\*/ , tried with "/*" at s[p]:
\* the pairs <<w, n>> of a leading blank run of w characters and a group of n
\* characters after which only blanks stand before a "*/".
CommentCands(line, p) ==
  IF ~LitAt(line, p, <<"/", "*">>) THEN {}
  ELSE LET s == p + 2
       IN {c \in (0..RunIn(line, s, Space)) \X (1..Len(line)) :
             \E q \in (s + c[1] + c[2])..(Len(line) - 1) :
                /\ LitAt(line, q, <<"*", "/">>)
                /\ \A k \in (s + c[1] + c[2])..(q - 1) : line[k] \in Space}

\* valuesRe = ^\s*(\d+)\s+(\d+)\s+(\w+).*?/\*\s*(.+?)\s*\*/\s*
\* FindStringSubmatch with leftmost-first choice: greedy runs are the longest
\* ones, .*? stops at the first "/*" that can be completed, \s* takes the most
\* blanks and (.+?) the fewest characters.
valuesRe(line) ==
  LET none == [ok |-> FALSE, pkts |-> <<>>, bytes |-> <<>>, target |-> <<>>,
               comment |-> <<>>]
      p0 == 1 + RunIn(line, 1, Space)
      d1 == RunIn(line, p0, Digit)
      w1 == RunIn(line, p0 + d1, Space)
      p1 == p0 + d1 + w1
      d2 == RunIn(line, p1, Digit)
      w2 == RunIn(line, p1 + d2, Space)
      p2 == p1 + d2 + w2
      t  == RunIn(line, p2, Word)
      p3 == p2 + t
      opens == {p \in p3..Len(line) : CommentCands(line, p) # {}}
  IN IF d1 = 0 \/ w1 = 0 \/ d2 = 0 \/ w2 = 0 \/ t = 0 \/ opens = {} THEN none
     ELSE LET p == CHOOSE x \in opens : \A y \in opens : x <= y
              cs == CommentCands(line, p)
              w == CHOOSE x \in {c[1] : c \in cs} : \A c \in cs : c[1] <= x
              n == CHOOSE x \in {c[2] : c \in {d \in cs : d[1] = w}} :
                      \A c \in {d \in cs : d[1] = w} : x <= c[2]
          IN [ok |-> TRUE,
              pkts |-> SubSeq(line, p0, p0 + d1 - 1),
              bytes |-> SubSeq(line, p1, p1 + d2 - 1),
              target |-> SubSeq(line, p2, p3 - 1),
              comment |-> SubSeq(line, p + 2 + w, p + 1 + w + n)]

\* 2^64 - 1 in decimal digits: the largest value strconv.ParseUint(s, 10, 64) returns.
MaxUint64Digits == <<"1", "8", "4", "4", "6", "7", "4", "4", "0", "7", "3", "7", "0", "9", "5", "5", "1", "6", "1", "5">>

DigitVal(c) == CHOOSE v \in 0..9 : <<"0", "1", "2", "3", "4", "5", "6", "7", "8", "9">>[v + 1] = c

\* Decimal digits without the leading zeros ("0" for zero).
StripZeros(ds) ==
  LET z == RunIn(ds, 1, {"0"})
  IN IF z = Len(ds) THEN <<"0">> ELSE SubSeq(ds, z + 1, Len(ds))

\* a <= b for two digit strings of the same length.
RECURSIVE DigitsLE(_, _)
DigitsLE(a, b) ==
  IF a = <<>> THEN TRUE
  ELSE IF DigitVal(Head(a)) < DigitVal(Head(b)) THEN TRUE
  ELSE IF DigitVal(Head(a)) > DigitVal(Head(b)) THEN FALSE
  ELSE DigitsLE(Tail(a), Tail(b))

\* strconv.ParseUint(s, 10, 64) on a non-empty digit string: the value (as its
\* decimal digits, 64-bit values do not fit the integers of TLC) or a range
\* error when the value exceeds 2^64 - 1.
ParseUint(ds) ==
  LET n == StripZeros(ds)
      fits == \/ Len(n) < Len(MaxUint64Digits)
              \/ Len(n) = Len(MaxUint64Digits) /\ DigitsLE(n, MaxUint64Digits)
  IN [ok |-> fits, val |-> IF fits THEN n ELSE MaxUint64Digits]

\* The metric parseAndGather hands to acc.AddFields for one matching line.
RuleMetric(table, chain, m) ==
  [measurement |-> measurement,
   fields |-> [pkts |-> ParseUint(m.pkts).val, bytes |-> ParseUint(m.bytes).val],
   tags |-> [table |-> table, chain |-> chain, target |-> m.target,
             ruleid |-> m.comment]]

\* gatherRules with the loop left (break) at a counter ParseUint rejects.
RECURSIVE gatherRulesStopOnRange(_, _, _)
gatherRulesStopOnRange(table, chain, lines) ==
  IF lines = <<>> THEN <<>>
  ELSE LET m == valuesRe(Head(lines))
           rest == gatherRulesStopOnRange(table, chain, Tail(lines))
       IN IF ~m.ok THEN rest
          ELSE IF ~ParseUint(m.pkts).ok THEN <<>>
          ELSE IF ~ParseUint(m.bytes).ok THEN <<>>
          ELSE <<RuleMetric(table, chain, m)>> \o rest

\* The loop over lines[2:]: a line that does not match valuesRe, or whose pkts
\* or bytes ParseUint rejects, is passed over (continue).
RECURSIVE gatherRules(_, _, _)
gatherRules(table, chain, lines) ==
  IF lines = <<>> THEN <<>>
  ELSE LET m == valuesRe(Head(lines))
           rest == gatherRules(table, chain, Tail(lines))
       IN IF ~m.ok THEN rest
          ELSE IF ~ParseUint(m.pkts).ok THEN rest
          ELSE IF ~ParseUint(m.bytes).ok THEN rest
          ELSE <<RuleMetric(table, chain, m)>> \o rest

\* parseAndGather without the check of the header line.
parseAndGatherNoHeader(table, data) ==
  LET lines == SplitLines(data)
      stop(e) == [err |-> e, metrics |-> <<>>, examined |-> 0]
  IN IF Len(lines) < 3 THEN stop("nil")
     ELSE IF ~chainNameRe(lines[1]).ok THEN stop(errParse)
     ELSE [err |-> "nil",
           metrics |-> gatherRules(table, chainNameRe(lines[1]).name,
                                   SubSeq(lines, 3, Len(lines))),
           examined |-> Len(lines) - 2]

\* Iptables.parseAndGather: the error returned, the metrics added in order and
\* the number of rule lines valuesRe was applied to.
parseAndGather(table, data) ==
  LET lines == SplitLines(data)
      stop(e) == [err |-> e, metrics |-> <<>>, examined |-> 0]
  IN IF Len(lines) < 3 THEN stop("nil")
     ELSE IF ~chainNameRe(lines[1]).ok THEN stop(errParse)
     ELSE IF ~fieldsHeaderRe(lines[2]) THEN stop(errParse)
     ELSE [err |-> "nil",
           metrics |-> gatherRules(table, chainNameRe(lines[1]).name,
                                   SubSeq(lines, 3, Len(lines))),
           examined |-> Len(lines) - 2]

\* ------------------------------------------------ listings fed to the parser
\* "Chain INPUT (policy DROP)"
ChainLineInput == <<"C", "h", "a", "i", "n", " ", "I", "N", "P", "U", "T", " ", "(", "p", "o", "l", "i", "c", "y", " ", "D", "R", "O", "P", ")">>
\* "Chain<TAB>FWD"
ChainLineTab == <<"C", "h", "a", "i", "n", "\t", "F", "W", "D">>
\* "chain INPUT"
ChainLineBad == <<"c", "h", "a", "i", "n", " ", "I", "N", "P", "U", "T">>
\* "Chain "
ChainLineNoName == <<"C", "h", "a", "i", "n", " ">>
\* " pkts bytes target prot"
HeaderLine == <<" ", "p", "k", "t", "s", " ", "b", "y", "t", "e", "s", " ", "t", "a", "r", "g", "e", "t", " ", "p", "r", "o", "t">>
\* "pkts<TAB>bytes  target"
HeaderLineFlush == <<"p", "k", "t", "s", "\t", "b", "y", "t", "e", "s", " ", " ", "t", "a", "r", "g", "e", "t">>
\* " bytes target prot"
HeaderLineBad == <<" ", "b", "y", "t", "e", "s", " ", "t", "a", "r", "g", "e", "t", " ", "p", "r", "o", "t">>
\* " 57 4520 RETURN tcp /* foo */"
RuleLineComment == <<" ", "5", "7", " ", "4", "5", "2", "0", " ", "R", "E", "T", "U", "R", "N", " ", "t", "c", "p", " ", "/", "*", " ", "f", "o", "o", " ", "*", "/">>
\* " 9 81 ACCEPT all"
RuleLineNoComment == <<" ", "9", " ", "8", "1", " ", "A", "C", "C", "E", "P", "T", " ", "a", "l", "l">>
\* "18446744073709551615 007 DROP /*m*/"
RuleLineMaxUint == <<"1", "8", "4", "4", "6", "7", "4", "4", "0", "7", "3", "7", "0", "9", "5", "5", "1", "6", "1", "5", " ", "0", "0", "7", " ", "D", "R", "O", "P", " ", "/", "*", "m", "*", "/">>
\* " 18446744073709551616 5 DROP /* big */"
RuleLinePktsOverflow == <<" ", "1", "8", "4", "4", "6", "7", "4", "4", "0", "7", "3", "7", "0", "9", "5", "5", "1", "6", "1", "6", " ", "5", " ", "D", "R", "O", "P", " ", "/", "*", " ", "b", "i", "g", " ", "*", "/">>
\* " 5 99999999999999999999 LOG /* big */"
RuleLineBytesOverflow == <<" ", "5", " ", "9", "9", "9", "9", "9", "9", "9", "9", "9", "9", "9", "9", "9", "9", "9", "9", "9", "9", "9", "9", " ", "L", "O", "G", " ", "/", "*", " ", "b", "i", "g", " ", "*", "/">>
\* " 1 2 A /**/"
RuleLineEmptyComment == <<" ", "1", " ", "2", " ", "A", " ", "/", "*", "*", "/">>
\* " 1 2 A /* */"
RuleLineBlankComment == <<" ", "1", " ", "2", " ", "A", " ", "/", "*", " ", "*", "/">>

ChainLines == {ChainLineInput, ChainLineTab, ChainLineBad, ChainLineNoName}
HeaderLines == {HeaderLine, HeaderLineFlush, HeaderLineBad}
RuleLines == {RuleLineComment, RuleLineNoComment, RuleLineMaxUint,
              RuleLinePktsOverflow, RuleLineBytesOverflow, RuleLineEmptyComment,
              RuleLineBlankComment, <<>>}

\* Every listing of a first line, a second line and up to MaxRules further
\* lines, and the listings of fewer lines.
ParseInputs ==
  {JoinLines(<<c, h>> \o rs) :
      c \in ChainLines, h \in HeaderLines,
      rs \in UNION {[1..k -> RuleLines] : k \in 0..MaxRules}}
  \cup ChainLines \cup HeaderLines \cup {<<>>}

\* What the chain lister returns in the Gather runs: its output and its error.
ListerResults ==
  {[data |-> JoinLines(ls), err |-> "nil"] :
      ls \in {<<ChainLineInput, HeaderLine, RuleLineComment, <<>> >>,
              <<ChainLineTab, HeaderLineFlush, RuleLinePktsOverflow,
                RuleLineMaxUint, RuleLineNoComment>>,
              <<ChainLineInput, HeaderLine, <<>> >>,
              <<ChainLineBad, HeaderLine, RuleLineComment>>,
              <<ChainLineInput, HeaderLineBad, RuleLineComment>>,
              <<ChainLineBad>>,
              << >>}}
  \cup {[data |-> <<>>, err |-> "exit status 1"],
        [data |-> JoinLines(<<ChainLineInput, HeaderLine, RuleLineComment>>),
         err |-> "exit status 3"]}

Tables == {"", "filter"}
ChainNames == {"INPUT", "FORWARD"}

\* ------------------------------------------------------------- nginx_plus
\* A Go map or JSON object is a function on strings; Put is m[k] = v.
EmptyMap == [k \in {} |-> 0]
Put(m, k, v) == [x \in DOMAIN m \cup {k} |-> IF x = k THEN v ELSE m[x]]
Merge(f, g) == [x \in DOMAIN f \cup DOMAIN g |-> IF x \in DOMAIN f THEN f[x] ELSE g[x]]

\* A Go pointer: nil, or the address of a value.
Nil == [nil |-> TRUE]
Ref(v) == [nil |-> FALSE, v |-> v]

\* encoding/json filling a struct field from the object o: a key the object
\* lacks leaves the field at its zero value, a pointer field at nil.
Has(o, k) == k \in DOMAIN o
JInt(o, k) == IF Has(o, k) THEN o[k] ELSE 0
JStr(o, k) == IF Has(o, k) THEN o[k] ELSE ""
JBool(o, k) == IF Has(o, k) THEN o[k] ELSE FALSE
JPtr(o, k) == IF Has(o, k) THEN Ref(o[k]) ELSE Nil
JObj(o, k) == IF Has(o, k) THEN o[k] ELSE EmptyMap
JArr(o, k) == IF Has(o, k) THEN o[k] ELSE <<>>

\* type responseStats
decodeResponseStats(o) ==
  [Responses1xx |-> JInt(o, "1xx"), Responses2xx |-> JInt(o, "2xx"),
   Responses3xx |-> JInt(o, "3xx"), Responses4xx |-> JInt(o, "4xx"),
   Responses5xx |-> JInt(o, "5xx"), Total |-> JInt(o, "total")]

\* type basicHitStats
decodeBasicHitStats(o) == [Responses |-> JInt(o, "responses"), Bytes |-> JInt(o, "bytes")]

\* type extendedHitStats
decodeExtendedHitStats(o) ==
  [Responses |-> JInt(o, "responses"), Bytes |-> JInt(o, "bytes"),
   ResponsesWritten |-> JInt(o, "responses_written"),
   BytesWritten |-> JInt(o, "bytes_written")]

\* type healthCheckStats
decodeHealthCheckStats(o) ==
  [Checks |-> JInt(o, "checks"), Fails |-> JInt(o, "fails"),
   Unhealthy |-> JInt(o, "unhealthy"), LastPassed |-> JPtr(o, "last_passed")]

\* status.ServerZones[...]
decodeZone(o) ==
  [Processing |-> JInt(o, "processing"), Requests |-> JInt(o, "requests"),
   Responses |-> decodeResponseStats(JObj(o, "responses")),
   Discarded |-> JPtr(o, "discarded"),
   Received |-> JInt(o, "received"), Sent |-> JInt(o, "sent")]

\* status.Upstreams[...].Peers[...]
decodePeer(o) ==
  [ID |-> JPtr(o, "id"), Server |-> JStr(o, "server"), Backup |-> JBool(o, "backup"),
   Weight |-> JInt(o, "weight"), State |-> JStr(o, "state"), Active |-> JInt(o, "active"),
   Keepalive |-> JPtr(o, "keepalive"), MaxConns |-> JPtr(o, "max_conns"),
   Requests |-> JInt(o, "requests"),
   Responses |-> decodeResponseStats(JObj(o, "responses")),
   Sent |-> JInt(o, "sent"), Received |-> JInt(o, "received"),
   Fails |-> JInt(o, "fails"), Unavail |-> JInt(o, "unavail"),
   HealthChecks |-> decodeHealthCheckStats(JObj(o, "health_checks")),
   Downtime |-> JInt(o, "downtime"), Downstart |-> JInt(o, "downstart"),
   Selected |-> JPtr(o, "selected"), HeaderTime |-> JPtr(o, "header_time"),
   ResponseTime |-> JPtr(o, "response_time")]

\* status.Upstreams[...].Queue
decodeQueue(o) ==
  [Size |-> JInt(o, "size"), MaxSize |-> JInt(o, "max_size"),
   Overflows |-> JInt(o, "overflows")]

\* status.Upstreams[...]
decodeUpstream(o) ==
  [Peers |-> [k \in 1..Len(JArr(o, "peers")) |-> decodePeer(JArr(o, "peers")[k])],
   Keepalive |-> JInt(o, "keepalive"), Zombies |-> JInt(o, "zombies"),
   Queue |-> IF Has(o, "queue") THEN Ref(decodeQueue(o["queue"])) ELSE Nil]

\* status.Caches[...]
decodeCache(o) ==
  [Size |-> JInt(o, "size"), MaxSize |-> JInt(o, "max_size"), Cold |-> JBool(o, "cold"),
   Hit |-> decodeBasicHitStats(JObj(o, "hit")),
   Stale |-> decodeBasicHitStats(JObj(o, "stale")),
   Updating |-> decodeBasicHitStats(JObj(o, "updating")),
   Revalidated |-> IF Has(o, "revalidated")
                   THEN Ref(decodeBasicHitStats(o["revalidated"])) ELSE Nil,
   Miss |-> decodeExtendedHitStats(JObj(o, "miss")),
   Expired |-> decodeExtendedHitStats(JObj(o, "expired")),
   Bypass |-> decodeExtendedHitStats(JObj(o, "bypass"))]

\* status.Stream.ServerZones[...]
decodeStreamZone(o) ==
  [Processing |-> JInt(o, "processing"), Connections |-> JInt(o, "connections"),
   Sessions |-> IF Has(o, "sessions")
                THEN Ref(decodeResponseStats(o["sessions"])) ELSE Nil,
   Discarded |-> JPtr(o, "discarded"),
   Received |-> JInt(o, "received"), Sent |-> JInt(o, "sent")]

\* status.Stream.Upstreams[...].Peers[...]
decodeStreamPeer(o) ==
  [ID |-> JInt(o, "id"), Server |-> JStr(o, "server"), Backup |-> JBool(o, "backup"),
   Weight |-> JInt(o, "weight"), State |-> JStr(o, "state"), Active |-> JInt(o, "active"),
   Connections |-> JInt(o, "connections"), ConnectTime |-> JPtr(o, "connect_time"),
   FirstByteTime |-> JPtr(o, "first_byte_time"),
   ResponseTime |-> JPtr(o, "response_time"),
   Sent |-> JInt(o, "sent"), Received |-> JInt(o, "received"),
   Fails |-> JInt(o, "fails"), Unavail |-> JInt(o, "unavail"),
   HealthChecks |-> decodeHealthCheckStats(JObj(o, "health_checks")),
   Downtime |-> JInt(o, "downtime"), Downstart |-> JInt(o, "downstart"),
   Selected |-> JInt(o, "selected")]

\* status.Stream.Upstreams[...]
decodeStreamUpstream(o) ==
  [Peers |-> [k \in 1..Len(JArr(o, "peers")) |-> decodeStreamPeer(JArr(o, "peers")[k])],
   Zombies |-> JInt(o, "zombies")]

\* A map section: one decoded entry per key of the object, none without it.
decodeMap(o, k, kind) ==
  [n \in DOMAIN JObj(o, k) |->
     CASE kind = "zone" -> decodeZone(o[k][n])
       [] kind = "upstream" -> decodeUpstream(o[k][n])
       [] kind = "cache" -> decodeCache(o[k][n])
       [] kind = "stream_zone" -> decodeStreamZone(o[k][n])
       [] kind = "stream_upstream" -> decodeStreamUpstream(o[k][n])]

\* json.Decoder.Decode into type status: the struct the document o fills.
decodeStatus(o) ==
  [Version |-> JInt(o, "version"), NginxVersion |-> JStr(o, "nginx_version"),
   Address |-> JStr(o, "address"), Generation |-> JPtr(o, "generation"),
   LoadTimestamp |-> JPtr(o, "load_timestamp"), Timestamp |-> JInt(o, "timestamp"),
   Pid |-> JPtr(o, "pid"),
   Processes |-> IF Has(o, "processes")
                 THEN Ref([Respawned |-> JPtr(o["processes"], "respawned")]) ELSE Nil,
   Connections |-> [Accepted |-> JInt(JObj(o, "connections"), "accepted"),
                    Dropped |-> JInt(JObj(o, "connections"), "dropped"),
                    Active |-> JInt(JObj(o, "connections"), "active"),
                    Idle |-> JInt(JObj(o, "connections"), "idle")],
   Ssl |-> IF Has(o, "ssl")
           THEN Ref([Handshakes |-> JInt(o["ssl"], "handshakes"),
                     HandshakesFailed |-> JInt(o["ssl"], "handshakes_failed"),
                     SessionReuses |-> JInt(o["ssl"], "session_reuses")])
           ELSE Nil,
   Requests |-> [Total |-> JInt(JObj(o, "requests"), "total"),
                 Current |-> JInt(JObj(o, "requests"), "current")],
   ServerZones |-> decodeMap(o, "server_zones", "zone"),
   Upstreams |-> decodeMap(o, "upstreams", "upstream"),
   Caches |-> decodeMap(o, "caches", "cache"),
   Stream |-> [ServerZones |-> decodeMap(JObj(o, "stream"), "server_zones", "stream_zone"),
               Upstreams |-> decodeMap(JObj(o, "stream"), "upstreams", "stream_upstream")]]

\* acc.AddFields(measurement, fields, tags) as the metric it adds.
Metric(name, fields, tags) == [measurement |-> name, fields |-> fields, tags |-> tags]

\* What a gather method did: the metrics it added, in order, whether it ended
\* in a nil pointer dereference (a run-time panic), and the entries of the map
\* it was given (a Go map is shared with the caller) as it leaves them.
Completed(ms, tags) == [out |-> ms, panic |-> FALSE, tags |-> tags]
Panicked(ms, tags) == [out |-> ms, panic |-> TRUE, tags |-> tags]

\* for k, v := range m: the keys of m in the order ord, one of the orders the
\* run time may pick (ord lists every key once).
Keys(m, ord) == SelectSeq(ord, LAMBDA n : n \in DOMAIN m)

RECURSIVE Flatten(_)
Flatten(ss) == IF ss = <<>> THEN <<>> ELSE Head(ss) \o Flatten(Tail(ss))

\* strconv.Itoa
RECURSIVE Itoa(_)
Itoa(n) ==
  IF n < 0 THEN "-" \o Itoa(0 - n)
  ELSE IF n < 10 THEN <<"0", "1", "2", "3", "4", "5", "6", "7", "8", "9">>[n + 1]
  ELSE Itoa(n \div 10) \o Itoa(n % 10)

\* status.gatherProcessesMetrics: s.Processes is dereferenced unconditionally.
gatherProcessesMetrics(s, tags) ==
  IF s.Processes.nil THEN Panicked(<<>>, tags)
  ELSE Completed(<<Metric("nginx_plus_processes",
                          [respawned |-> IF s.Processes.v.Respawned.nil THEN 0
                                         ELSE s.Processes.v.Respawned.v],
                          tags)>>, tags)

\* status.gatherConnectionsMetrics
gatherConnectionsMetrics(s, tags) ==
  Completed(<<Metric("nginx_plus_connections",
                     [accepted |-> s.Connections.Accepted,
                      dropped |-> s.Connections.Dropped,
                      active |-> s.Connections.Active,
                      idle |-> s.Connections.Idle],
                     tags)>>, tags)

\* status.gatherSslMetrics: s.Ssl is dereferenced unconditionally.
gatherSslMetrics(s, tags) ==
  IF s.Ssl.nil THEN Panicked(<<>>, tags)
  ELSE Completed(<<Metric("nginx_plus_ssl",
                          [handshakes |-> s.Ssl.v.Handshakes,
                           handshakes_failed |-> s.Ssl.v.HandshakesFailed,
                           session_reuses |-> s.Ssl.v.SessionReuses],
                          tags)>>, tags)

\* status.gatherRequestMetrics
gatherRequestMetrics(s, tags) ==
  Completed(<<Metric("nginx_plus_requests",
                     [total |-> s.Requests.Total, current |-> s.Requests.Current],
                     tags)>>, tags)

\* The fields of one nginx_plus_zone metric.
zoneFields(zone) ==
  LET result == [processing |-> zone.Processing, requests |-> zone.Requests,
                 responses_1xx |-> zone.Responses.Responses1xx,
                 responses_2xx |-> zone.Responses.Responses2xx,
                 responses_3xx |-> zone.Responses.Responses3xx,
                 responses_4xx |-> zone.Responses.Responses4xx,
                 responses_5xx |-> zone.Responses.Responses5xx,
                 responses_total |-> zone.Responses.Total,
                 received |-> zone.Received, sent |-> zone.Sent]
  IN IF zone.Discarded.nil THEN result ELSE Put(result, "discarded", zone.Discarded.v)

\* gatherZoneMetrics with zoneTags being the map it was given (zoneTags :=
\* tags) instead of a copy: the key "zone" is written to the caller's map.
gatherZoneMetricsShared(s, tags, ord) ==
  LET names == Keys(s.ServerZones, ord)
  IN Completed([k \in 1..Len(names) |->
                  Metric("nginx_plus_zone", zoneFields(s.ServerZones[names[k]]),
                         Put(tags, "zone", names[k]))],
               IF names = <<>> THEN tags ELSE Put(tags, "zone", names[Len(names)]))

\* status.gatherZoneMetrics: zoneTags is a new map holding the entries of tags
\* and the zone.
gatherZoneMetrics(s, tags, ord) ==
  LET names == Keys(s.ServerZones, ord)
  IN Completed([k \in 1..Len(names) |->
                  Metric("nginx_plus_zone", zoneFields(s.ServerZones[names[k]]),
                         Put(tags, "zone", names[k]))], tags)

\* The fields of one nginx_plus_upstream metric.
upstreamFields(upstream) ==
  LET base == [keepalive |-> upstream.Keepalive, zombies |-> upstream.Zombies]
  IN IF upstream.Queue.nil THEN base
     ELSE Merge([queue_size |-> upstream.Queue.v.Size,
                 queue_max_size |-> upstream.Queue.v.MaxSize,
                 queue_overflows |-> upstream.Queue.v.Overflows], base)

\* peerFields with header_time treated as selected is: always there, 0 when
\* the document has none.
peerFieldsHeaderTimeAlways(peer) ==
  LET base == [backup |-> peer.Backup, weight |-> peer.Weight, state |-> peer.State,
               active |-> peer.Active, requests |-> peer.Requests,
               responses_1xx |-> peer.Responses.Responses1xx,
               responses_2xx |-> peer.Responses.Responses2xx,
               responses_3xx |-> peer.Responses.Responses3xx,
               responses_4xx |-> peer.Responses.Responses4xx,
               responses_5xx |-> peer.Responses.Responses5xx,
               responses_total |-> peer.Responses.Total,
               sent |-> peer.Sent, received |-> peer.Received,
               fails |-> peer.Fails, unavail |-> peer.Unavail,
               healthchecks_checks |-> peer.HealthChecks.Checks,
               healthchecks_fails |-> peer.HealthChecks.Fails,
               healthchecks_unhealthy |-> peer.HealthChecks.Unhealthy,
               downtime |-> peer.Downtime, downstart |-> peer.Downstart,
               selected |-> IF peer.Selected.nil THEN 0 ELSE peer.Selected.v,
               header_time |-> IF peer.HeaderTime.nil THEN 0 ELSE peer.HeaderTime.v]
      opt(f, k, p) == IF p.nil THEN f ELSE Put(f, k, p.v)
  IN opt(opt(opt(base, "healthchecks_last_passed", peer.HealthChecks.LastPassed),
                 "response_time", peer.ResponseTime),
         "max_conns", peer.MaxConns)

\* The fields of one nginx_plus_upstream_peer metric.
peerFields(peer) ==
  LET base == [backup |-> peer.Backup, weight |-> peer.Weight, state |-> peer.State,
               active |-> peer.Active, requests |-> peer.Requests,
               responses_1xx |-> peer.Responses.Responses1xx,
               responses_2xx |-> peer.Responses.Responses2xx,
               responses_3xx |-> peer.Responses.Responses3xx,
               responses_4xx |-> peer.Responses.Responses4xx,
               responses_5xx |-> peer.Responses.Responses5xx,
               responses_total |-> peer.Responses.Total,
               sent |-> peer.Sent, received |-> peer.Received,
               fails |-> peer.Fails, unavail |-> peer.Unavail,
               healthchecks_checks |-> peer.HealthChecks.Checks,
               healthchecks_fails |-> peer.HealthChecks.Fails,
               healthchecks_unhealthy |-> peer.HealthChecks.Unhealthy,
               downtime |-> peer.Downtime, downstart |-> peer.Downstart,
               selected |-> IF peer.Selected.nil THEN 0 ELSE peer.Selected.v]
      opt(f, k, p) == IF p.nil THEN f ELSE Put(f, k, p.v)
  IN opt(opt(opt(opt(base, "healthchecks_last_passed", peer.HealthChecks.LastPassed),
                     "header_time", peer.HeaderTime),
                 "response_time", peer.ResponseTime),
         "max_conns", peer.MaxConns)

\* The tags of one nginx_plus_upstream_peer metric.
peerTags(upstreamTags, peer) ==
  LET t == Put(upstreamTags, "upstream_address", peer.Server)
  IN IF peer.ID.nil THEN t ELSE Put(t, "id", Itoa(peer.ID.v))

\* status.gatherUpstreamMetrics
gatherUpstreamMetrics(s, tags, ord) ==
  LET names == Keys(s.Upstreams, ord)
      one(name) ==
        LET upstream == s.Upstreams[name]
            upstreamTags == Put(tags, "upstream", name)
        IN <<Metric("nginx_plus_upstream", upstreamFields(upstream), upstreamTags)>>
           \o [k \in 1..Len(upstream.Peers) |->
                 Metric("nginx_plus_upstream_peer", peerFields(upstream.Peers[k]),
                        peerTags(upstreamTags, upstream.Peers[k]))]
  IN Completed(Flatten([k \in 1..Len(names) |-> one(names[k])]), tags)

\* The fields of one nginx_plus_cache metric; cache.Revalidated is not nil.
cacheFields(cache) ==
  [size |-> cache.Size, max_size |-> cache.MaxSize, cold |-> cache.Cold,
   hit_responses |-> cache.Hit.Responses, hit_bytes |-> cache.Hit.Bytes,
   stale_responses |-> cache.Stale.Responses, stale_bytes |-> cache.Stale.Bytes,
   updating_responses |-> cache.Updating.Responses,
   updating_bytes |-> cache.Updating.Bytes,
   revalidated_responses |-> cache.Revalidated.v.Responses,
   revalidated_bytes |-> cache.Revalidated.v.Bytes,
   miss_responses |-> cache.Miss.Responses, miss_bytes |-> cache.Miss.Bytes,
   miss_responses_written |-> cache.Miss.ResponsesWritten,
   miss_bytes_written |-> cache.Miss.BytesWritten,
   expired_responses |-> cache.Expired.Responses,
   expired_bytes |-> cache.Expired.Bytes,
   expired_responses_written |-> cache.Expired.ResponsesWritten,
   expired_bytes_written |-> cache.Expired.BytesWritten,
   bypass_responses |-> cache.Bypass.Responses, bypass_bytes |-> cache.Bypass.Bytes,
   bypass_responses_written |-> cache.Bypass.ResponsesWritten,
   bypass_bytes_written |-> cache.Bypass.BytesWritten]

\* status.gatherCacheMetrics: cache.Revalidated is dereferenced unconditionally
\* while the fields are built, before AddFields is called for that cache.
gatherCacheMetrics(s, tags, ord) ==
  LET names == Keys(s.Caches, ord)
      bad == {k \in 1..Len(names) : s.Caches[names[k]].Revalidated.nil}
      last == IF bad = {} THEN Len(names)
              ELSE (CHOOSE k \in bad : \A j \in bad : k <= j) - 1
      ms == [k \in 1..last |->
               Metric("nginx_plus_cache", cacheFields(s.Caches[names[k]]),
                      Put(tags, "cache", names[k]))]
  IN IF bad = {} THEN Completed(ms, tags) ELSE Panicked(ms, tags)

\* The fields of one nginx_plus_stream_upstream_peer metric.
streamPeerFields(peer) ==
  LET base == [backup |-> peer.Backup, weight |-> peer.Weight, state |-> peer.State,
               active |-> peer.Active, connections |-> peer.Connections,
               sent |-> peer.Sent, received |-> peer.Received,
               fails |-> peer.Fails, unavail |-> peer.Unavail,
               healthchecks_checks |-> peer.HealthChecks.Checks,
               healthchecks_fails |-> peer.HealthChecks.Fails,
               healthchecks_unhealthy |-> peer.HealthChecks.Unhealthy,
               downtime |-> peer.Downtime, downstart |-> peer.Downstart,
               selected |-> peer.Selected]
      opt(f, k, p) == IF p.nil THEN f ELSE Put(f, k, p.v)
  IN opt(opt(opt(opt(base, "healthchecks_last_passed", peer.HealthChecks.LastPassed),
                     "connect_time", peer.ConnectTime),
                 "first_byte_time", peer.FirstByteTime),
         "response_time", peer.ResponseTime)

\* status.gatherStreamMetrics: the stream server zones, then the stream upstreams
\* with their peers.
gatherStreamMetrics(s, tags, ordZones, ordUpstreams) ==
  LET zones == Keys(s.Stream.ServerZones, ordZones)
      names == Keys(s.Stream.Upstreams, ordUpstreams)
      zoneMetric(name) ==
        Metric("nginx.stream.zone",
               [processing |-> s.Stream.ServerZones[name].Processing,
                connections |-> s.Stream.ServerZones[name].Connections,
                received |-> s.Stream.ServerZones[name].Received,
                sent |-> s.Stream.ServerZones[name].Sent],
               Put(tags, "zone", name))
      one(name) ==
        LET upstream == s.Stream.Upstreams[name]
            upstreamTags == Put(tags, "upstream", name)
        IN <<Metric("nginx_plus_stream_upstream", [zombies |-> upstream.Zombies],
                    upstreamTags)>>
           \o [k \in 1..Len(upstream.Peers) |->
                 Metric("nginx_plus_stream_upstream_peer",
                        streamPeerFields(upstream.Peers[k]),
                        Put(Put(upstreamTags, "upstream_address", upstream.Peers[k].Server),
                            "id", Itoa(upstream.Peers[k].ID)))]
  IN Completed([k \in 1..Len(zones) |-> zoneMetric(zones[k])]
               \o Flatten([k \in 1..Len(names) |-> one(names[k])]), tags)

\* The k-th call of status.gather; ords holds the iteration order of each of the
\* five maps (server zones, upstreams, caches, stream zones, stream upstreams).
NumSections == 8
gatherSection(k, s, tags, ords) ==
  CASE k = 1 -> gatherProcessesMetrics(s, tags)
    [] k = 2 -> gatherConnectionsMetrics(s, tags)
    [] k = 3 -> gatherSslMetrics(s, tags)
    [] k = 4 -> gatherRequestMetrics(s, tags)
    [] k = 5 -> gatherZoneMetrics(s, tags, ords[1])
    [] k = 6 -> gatherUpstreamMetrics(s, tags, ords[2])
    [] k = 7 -> gatherCacheMetrics(s, tags, ords[3])
    [] k = 8 -> gatherStreamMetrics(s, tags, ords[4], ords[5])

\* The calls of status.gather from the k-th on: each method is given the map
\* as the one before it left it; a panic ends the sequence.
Only(S) == CHOOSE x \in S : TRUE
RECURSIVE gatherFrom(_, _, _, _)
gatherFrom(k, s, tags, ords) ==
  IF k > NumSections THEN Completed(<<>>, tags)
  ELSE Only({IF r.panic THEN r
             ELSE Only({[out |-> r.out \o rest.out, panic |-> rest.panic,
                         tags |-> rest.tags] :
                           rest \in {gatherFrom(k + 1, s, r.tags, ords)}}) :
               r \in {gatherSection(k, s, tags, ords)}})

\* status.gather: the eight methods in order.
gather(s, tags, ords) == gatherFrom(1, s, tags, ords)

\* gatherStatusURL: decode the body, then gather.
gatherStatusURL(body, tags, ords) ==
  IF ~body.valid
  THEN [err |-> "error while decoding JSON response", out |-> <<>>, panic |-> FALSE]
  ELSE Only({[err |-> "nil", out |-> r.out, panic |-> r.panic] :
               r \in {gather(decodeStatus(body.doc), tags, ords)}})

\* ------------------------------------------------------- URLs and responses
\* The entries the Urls setting is drawn from.
UrlA == "http://a:8080/status"
UrlB == "https://b/status"
UrlBad == ":8080/status"
UrlEntries == {UrlA, UrlB, UrlBad}

\* url.Parse on these entries: the error, or the scheme and host of the URL.
urlParse(u) ==
  CASE u = UrlA -> [err |-> "nil", raw |-> u, Scheme |-> "http", Host |-> <<"a", ":", "8", "0", "8", "0">>]
    [] u = UrlB -> [err |-> "nil", raw |-> u, Scheme |-> "https", Host |-> <<"b">>]
    [] u = UrlBad -> [err |-> "missing protocol scheme", raw |-> u, Scheme |-> "",
                      Host |-> <<>>]

\* net.SplitHostPort for a host without brackets: the text around the last
\* colon; no colon, or a colon left in the host, is an error.
splitHostPort(h) ==
  LET colons == {i \in 1..Len(h) : h[i] = ":"}
      i == CHOOSE x \in colons : \A y \in colons : y <= x
  IN IF colons = {} THEN [err |-> "missing port in address", host |-> <<>>, port |-> <<>>]
     ELSE IF Cardinality(colons) > 1
     THEN [err |-> "too many colons in address", host |-> <<>>, port |-> <<>>]
     ELSE [err |-> "nil", host |-> SubSeq(h, 1, i - 1), port |-> SubSeq(h, i + 1, Len(h))]

\* getTags
getTags(addr) ==
  LET r == splitHostPort(addr.Host)
  IN IF r.err = "nil" THEN [server |-> r.host, port |-> r.port]
     ELSE [server |-> addr.Host,
           port |-> IF addr.Scheme = "http" THEN <<"8", "0">>
                    ELSE IF addr.Scheme = "https" THEN <<"4", "4", "3">>
                    ELSE <<>>]

StatusOK == 200
\* "application/json"
AppJson == <<"a", "p", "p", "l", "i", "c", "a", "t", "i", "o", "n", "/", "j", "s", "o", "n">>

\* gatherURL without the check of the status code.
gatherURLNoStatus(addr, resp, ords) ==
  LET fail(e) == [err |-> e, out |-> <<>>, panic |-> FALSE]
  IN IF resp.err # "nil" THEN fail("error making HTTP request")
     ELSE IF Split(resp.ContentType, ";")[1] = AppJson
     THEN gatherStatusURL(resp.Body, getTags(addr), ords)
     ELSE fail("returned unexpected content type")

\* The part of gatherURL that follows the GET: what it returns, the metrics it
\* added and whether it panicked, for the response resp of client.Get.
gatherURL(addr, resp, ords) ==
  LET fail(e) == [err |-> e, out |-> <<>>, panic |-> FALSE]
  IN IF resp.err # "nil" THEN fail("error making HTTP request")
     ELSE IF resp.StatusCode # StatusOK THEN fail("returned HTTP status")
     ELSE IF Split(resp.ContentType, ";")[1] = AppJson
     THEN gatherStatusURL(resp.Body, getTags(addr), ords)
     ELSE fail("returned unexpected content type")

\* ------------------------------------------------------- status documents
Names == {"n1", "n2"}
Orders == {<<"n1", "n2">>, <<"n2", "n1">>}

\* The alternatives for each part of a status document; the first of each is
\* the part being absent.
ProcessesParts == <<EmptyMap, [processes |-> EmptyMap], [processes |-> [respawned |-> 2]]>>
SslParts == <<EmptyMap, [ssl |-> [handshakes |-> 7]]>>
ZoneParts ==
  <<EmptyMap,
    [server_zones |-> EmptyMap],
    [server_zones |-> [n1 |-> [requests |-> 3, discarded |-> 1]]],
    [server_zones |-> [n1 |-> [requests |-> 3], n2 |-> [discarded |-> 0]]]>>
PeerFull == [id |-> 4, server |-> "10.0.0.1:80", max_conns |-> 5, selected |-> 9,
             header_time |-> 1, response_time |-> 2,
             health_checks |-> [checks |-> 1, last_passed |-> TRUE]]
PeerOld == [server |-> "10.0.0.2:80", keepalive |-> 1]
PeerSome == [id |-> 0, server |-> "10.0.0.4:80", max_conns |-> 0,
             health_checks |-> [checks |-> 2]]
UpstreamParts ==
  <<EmptyMap,
    [upstreams |-> [n1 |-> [peers |-> <<>>, keepalive |-> 1]]],
    [upstreams |-> [n1 |-> [peers |-> <<PeerFull, PeerOld>>,
                            queue |-> [size |-> 1, max_size |-> 8]],
                    n2 |-> [peers |-> <<PeerOld>>]]],
    [upstreams |-> [n2 |-> [peers |-> <<PeerOld, PeerSome>>,
                            queue |-> [overflows |-> 0]]]]>>
CacheParts ==
  <<EmptyMap,
    [caches |-> [n1 |-> [size |-> 1, revalidated |-> [responses |-> 2]]]],
    [caches |-> [n1 |-> [size |-> 1]]],
    [caches |-> [n1 |-> [size |-> 1, revalidated |-> [bytes |-> 2]], n2 |-> [size |-> 2]]]>>
StreamParts ==
  <<EmptyMap,
    [stream |-> [server_zones |-> [n1 |-> [connections |-> 1]]]],
    [stream |-> [server_zones |-> [n2 |-> [connections |-> 1]],
                 upstreams |-> [n1 |-> [peers |-> <<[id |-> 0, server |-> "10.0.0.3:53"]>>],
                                n2 |-> [zombies |-> 1]]]]>>
BaseDoc == [version |-> 6, connections |-> [accepted |-> 5, active |-> 1],
            requests |-> [total |-> 10, current |-> 1]]

\* The document made of the chosen alternatives.
DocOf(p, s, z, u, c, t) ==
  Merge(BaseDoc,
    Merge(ProcessesParts[p],
      Merge(SslParts[s],
        Merge(ZoneParts[z], Merge(UpstreamParts[u], Merge(CacheParts[c], StreamParts[t]))))))

\* A document with every section (one entry in each map), and two documents
\* of older servers, which lack "processes" or "ssl".
DocFull == DocOf(3, 2, 3, 2, 2, 2)
DocNoProcesses == DocOf(1, 2, 3, 1, 1, 1)
DocNoSsl == DocOf(2, 1, 1, 1, 1, 1)

\* "application/json; charset=utf-8"
CtJsonCharset == <<"a", "p", "p", "l", "i", "c", "a", "t", "i", "o", "n", "/", "j", "s", "o", "n", ";", " ", "c", "h", "a", "r", "s", "e", "t", "=", "u", "t", "f", "-", "8">>
\* "text/html"
CtHtml == <<"t", "e", "x", "t", "/", "h", "t", "m", "l">>

\* What client.Get may answer.
Response(e, code, ct, valid, doc) ==
  [err |-> e, StatusCode |-> code, ContentType |-> ct,
   Body |-> [valid |-> valid, doc |-> doc]]
Responses ==
  <<Response("connection refused", 0, <<>>, FALSE, EmptyMap),
    Response("nil", 503, AppJson, TRUE, DocFull),
    Response("nil", 200, CtHtml, TRUE, DocFull),
    Response("nil", 200, AppJson, FALSE, EmptyMap),
    Response("nil", 200, CtJsonCharset, TRUE, DocFull),
    Response("nil", 200, AppJson, TRUE, DocNoProcesses),
    Response("nil", 200, AppJson, TRUE, DocNoSsl)>>

\* ------------------------------------------------------------------- state
VARIABLES
  Table,      \* Iptables.Table
  Chains,     \* Iptables.Chains
  ipc,        \* where Iptables.Gather stands: "idle", "loop", "returned"
  ichain,     \* index in Chains of the chain the loop is at
  icalls,     \* the chains of the lister invocations of this Gather, in order
  iacc,       \* what this Gather handed to the accumulator, in order
  ilog,       \* per loop pass: the lister's result and the parser's
  iret,       \* the value Gather returned ("none" while it runs)
  pdata,      \* parseAndGather's argument data
  ppc,        \* "ready" before parseAndGather ran, "done" after
  pres,       \* parseAndGather's result
  Urls,       \* NginxPlus.Urls
  ResponseTimeout, \* NginxPlus.ResponseTimeout, in seconds
  client,     \* NginxPlus.client: 0 is nil, k the k-th client created
  created,    \* how many times createHTTPClient has succeeded
  lastCreate, \* createHTTPClient in this Gather: "none" (not called), "ok", "failed"
  npc,        \* where NginxPlus.Gather stands: "idle", "loop", "returned"
  nidx,       \* index in Urls the loop is at; past the end it is at wg.Wait()
  wg,         \* the counter of the sync.WaitGroup of this Gather
  g,          \* per entry of Urls, the goroutine started for it
  gets,       \* per entry of Urls, the clients its HTTP GETs of this Gather used
  nacc,       \* per entry of Urls, what this Gather handed to the accumulator for it
  nret,       \* the value Gather returned ("none" while it runs)
  dying,      \* a goroutine has panicked and run its deferred calls
  crashed,    \* the run time has ended the process after a panic
  sdoc,       \* the status document status.gather is applied to
  sstatus,    \* the decoded status
  spc,        \* 0 before the decoding, k before the k-th section, 9 after the last
  spanic,     \* status.gather ended in a panic
  sacc,       \* the metrics status.gather added, in order
  stags       \* the entries of the tag map status.gather was given

iptVars == <<Table, Chains, ipc, ichain, icalls, iacc, ilog, iret>>
parseVars == <<pdata, ppc, pres>>
ngxVars == <<Urls, ResponseTimeout, client, created, lastCreate, npc, nidx,
             wg, g, gets, nacc, nret, dying, crashed>>
statusVars == <<sdoc, sstatus, spc, spanic, sacc, stags>>

NoParse == [err |-> "nil", metrics |-> <<>>, examined |-> 0]

IptIdle ==
  /\ ipc = "idle" /\ ichain = 0 /\ icalls = <<>> /\ iacc = <<>> /\ ilog = <<>>
  /\ iret = "none"

ParseIdle == pdata = <<>> /\ ppc = "ready" /\ pres = NoParse

\* addr is the argument of the go statement, fetched the URL its GET asked for.
NoGoroutine == [pc |-> "none", resp |-> 0, err |-> "nil", addr |-> "", fetched |-> ""]

NgxFresh ==
  /\ client = 0 /\ created = 0 /\ lastCreate = "none"
  /\ npc = "idle" /\ nidx = 0 /\ wg = 0
  /\ g = [i \in 1..Len(Urls) |-> NoGoroutine]
  /\ gets = [i \in 1..Len(Urls) |-> <<>>]
  /\ nacc = [i \in 1..Len(Urls) |-> <<>>]
  /\ nret = "none" /\ dying = FALSE /\ crashed = FALSE

NgxIdle == Urls = <<>> /\ ResponseTimeout = 0 /\ NgxFresh

StatusIdle ==
  /\ sdoc = EmptyMap /\ sstatus = EmptyMap /\ spc = 0 /\ spanic = FALSE /\ sacc = <<>>
  /\ stags = EmptyMap

\* acc.AddError(e) and acc.AddFields(measurement, fields, tags) as the entries
\* they leave in the accumulator.
ErrorEntry(e) == [kind |-> "error", err |-> e]
MetricEntries(ms) == [k \in 1..Len(ms) |-> [kind |-> "metric", metric |-> ms[k]]]

\* Iptables.Gather is called by the agent; without a table or without chains it
\* returns at once.
IptGather ==
  /\ ipc \in {"idle", "returned"}
  /\ icalls' = <<>> /\ iacc' = <<>> /\ ilog' = <<>>
  /\ IF Table = "" \/ Len(Chains) = 0
     THEN ipc' = "returned" /\ iret' = "nil" /\ ichain' = 0
     ELSE ipc' = "loop" /\ iret' = "none" /\ ichain' = 1
  /\ UNCHANGED <<Table, Chains>>

\* What one pass of the loop does with the lister's result r.
ChainPass(table, chain, r) ==
  IF r.err # "nil"
  THEN [acc |-> <<ErrorEntry(r.err)>>,
        log |-> [chain |-> chain, listed |-> FALSE, data |-> r.data, res |-> NoParse]]
  ELSE CHOOSE pass \in
         {[acc |-> MetricEntries(res.metrics) \o
                   (IF res.err # "nil" THEN <<ErrorEntry(res.err)>> ELSE <<>>),
           log |-> [chain |-> chain, listed |-> TRUE, data |-> r.data, res |-> res]] :
             res \in {parseAndGather(table, r.data)}} : TRUE

\* IptChain with Gather returning the error of a failed pass.
IptChainAbort ==
  /\ ipc = "loop" /\ ichain <= Len(Chains)
  /\ \E r \in ListerResults :
        \E pass \in {ChainPass(Table, Chains[ichain], r)} :
           /\ icalls' = Append(icalls, <<Table, Chains[ichain]>>)
           /\ iacc' = iacc \o pass.acc
           /\ ilog' = Append(ilog, pass.log)
           /\ IF ~pass.log.listed \/ pass.log.res.err # "nil"
              THEN ipc' = "returned" /\ iret' = "error"
              ELSE UNCHANGED <<ipc, iret>>
  /\ ichain' = ichain + 1
  /\ UNCHANGED <<Table, Chains>>

\* One pass of the loop over the chains: the lister is invoked, and its output
\* parsed; either failure goes to acc.AddError and the loop continues.
IptChain ==
  /\ ipc = "loop" /\ ichain <= Len(Chains)
  /\ \E r \in ListerResults :
        \E pass \in {ChainPass(Table, Chains[ichain], r)} :
           /\ icalls' = Append(icalls, <<Table, Chains[ichain]>>)
           /\ iacc' = iacc \o pass.acc
           /\ ilog' = Append(ilog, pass.log)
  /\ ichain' = ichain + 1
  /\ UNCHANGED <<Table, Chains, ipc, iret>>

\* The loop is over: return nil.
IptReturn ==
  /\ ipc = "loop" /\ ichain > Len(Chains)
  /\ ipc' = "returned" /\ iret' = "nil"
  /\ UNCHANGED <<Table, Chains, ichain, icalls, iacc, ilog>>

\* parseAndGather applied to one listing.
Parse ==
  /\ ppc = "ready"
  /\ ppc' = "done"
  /\ pres' = parseAndGather(Table, pdata)
  /\ UNCHANGED <<pdata>>


\* ------------------------------------------------------ NginxPlus.Gather
MinTimeout == 1
DefaultTimeout == 5

\* createHTTPClient: the response timeout it leaves, and its error; tlsErr is
\* the error of ClientConfig.TLSConfig().
createHTTPClient(rt, tlsErr) ==
  [ResponseTimeout |-> IF rt < MinTimeout THEN DefaultTimeout ELSE rt,
   err |-> tlsErr]

\* NgxGather without the test n.client == nil: a client is created in every call.
NgxGatherAlwaysCreate ==
  /\ npc \in {"idle", "returned"} /\ ~crashed
  /\ wg' = 0
  /\ g' = [i \in 1..Len(Urls) |-> NoGoroutine]
  /\ gets' = [i \in 1..Len(Urls) |-> <<>>]
  /\ nacc' = [i \in 1..Len(Urls) |-> <<>>]
  /\ \E tlsErr \in {"nil", "could not load keypair"} :
       \E c \in {createHTTPClient(ResponseTimeout, tlsErr)} :
         /\ ResponseTimeout' = c.ResponseTimeout
         /\ IF c.err # "nil"
            THEN /\ nret' = c.err /\ npc' = "returned" /\ nidx' = 0
                 /\ lastCreate' = "failed"
                 /\ UNCHANGED <<client, created>>
            ELSE /\ client' = created + 1 /\ created' = created + 1
                 /\ nret' = "none" /\ npc' = "loop" /\ nidx' = 1
                 /\ lastCreate' = "ok"
  /\ UNCHANGED <<Urls, dying, crashed>>

\* Gather is called by the agent. It creates the HTTP client when there is
\* none, and returns the error when that fails.
NgxGather ==
  /\ npc \in {"idle", "returned"} /\ ~crashed
  /\ wg' = 0
  /\ g' = [i \in 1..Len(Urls) |-> NoGoroutine]
  /\ gets' = [i \in 1..Len(Urls) |-> <<>>]
  /\ nacc' = [i \in 1..Len(Urls) |-> <<>>]
  /\ IF client = 0
     THEN \E tlsErr \in {"nil", "could not load keypair"} :
            \E c \in {createHTTPClient(ResponseTimeout, tlsErr)} :
              /\ ResponseTimeout' = c.ResponseTimeout
              /\ IF c.err # "nil"
                 THEN /\ nret' = c.err /\ npc' = "returned" /\ nidx' = 0
                      /\ lastCreate' = "failed"
                      /\ UNCHANGED <<client, created>>
                 ELSE /\ client' = created + 1 /\ created' = created + 1
                      /\ nret' = "none" /\ npc' = "loop" /\ nidx' = 1
                      /\ lastCreate' = "ok"
     ELSE /\ nret' = "none" /\ npc' = "loop" /\ nidx' = 1
          /\ lastCreate' = "none"
          /\ UNCHANGED <<ResponseTimeout, client, created>>
  /\ UNCHANGED <<Urls, dying, crashed>>

\* NgxLoop with the goroutines sharing one addr variable, which every pass of
\* the loop assigns, instead of each receiving its addr as an argument.
NgxLoopSharedAddr ==
  /\ npc = "loop" /\ nidx <= Len(Urls) /\ ~crashed
  /\ IF urlParse(Urls[nidx]).err # "nil"
     THEN /\ nacc' = [nacc EXCEPT ![nidx] = Append(@, ErrorEntry("unable to parse address"))]
          /\ UNCHANGED <<wg, g>>
     ELSE /\ wg' = wg + 1
          /\ g' = [j \in DOMAIN g |->
                     IF j = nidx
                     THEN [g[j] EXCEPT !.pc = "started", !.addr = Urls[nidx]]
                     ELSE IF g[j].pc # "none" THEN [g[j] EXCEPT !.addr = Urls[nidx]]
                     ELSE g[j]]
          /\ UNCHANGED nacc
  /\ nidx' = nidx + 1
  /\ UNCHANGED <<Urls, ResponseTimeout, client, created, lastCreate, npc, gets,
                 nret, dying, crashed>>

\* NgxLoop with Gather returning the error of an entry that does not parse.
NgxLoopAbort ==
  /\ npc = "loop" /\ nidx <= Len(Urls) /\ ~crashed
  /\ IF urlParse(Urls[nidx]).err # "nil"
     THEN /\ nacc' = [nacc EXCEPT ![nidx] = Append(@, ErrorEntry("unable to parse address"))]
          /\ npc' = "returned" /\ nret' = "unable to parse address"
          /\ UNCHANGED <<wg, g>>
     ELSE /\ wg' = wg + 1
          /\ g' = [g EXCEPT ![nidx].pc = "started", ![nidx].addr = Urls[nidx]]
          /\ UNCHANGED <<nacc, npc, nret>>
  /\ nidx' = nidx + 1
  /\ UNCHANGED <<Urls, ResponseTimeout, client, created, lastCreate, gets, dying, crashed>>

\* One pass of the loop over Urls: an entry that does not parse goes to
\* acc.AddError, for any other a goroutine is started after wg.Add(1).
NgxLoop ==
  /\ npc = "loop" /\ nidx <= Len(Urls) /\ ~crashed
  /\ IF urlParse(Urls[nidx]).err # "nil"
     THEN /\ nacc' = [nacc EXCEPT ![nidx] = Append(@, ErrorEntry("unable to parse address"))]
          /\ UNCHANGED <<wg, g>>
     ELSE /\ wg' = wg + 1
          /\ g' = [g EXCEPT ![nidx].pc = "started", ![nidx].addr = Urls[nidx]]
          /\ UNCHANGED nacc
  /\ nidx' = nidx + 1
  /\ UNCHANGED <<Urls, ResponseTimeout, client, created, lastCreate, npc,
                 gets, nret, dying, crashed>>

\* wg.Wait() returns when the counter is zero; Gather returns nil.
NgxWait ==
  /\ npc = "loop" /\ nidx > Len(Urls) /\ ~crashed
  /\ wg = 0
  /\ npc' = "returned" /\ nret' = "nil"
  /\ UNCHANGED <<Urls, ResponseTimeout, client, created, lastCreate, nidx,
                 wg, g, gets, nacc, dying, crashed>>

\* GoGet with the request repeated after a failed GET.
GoGetRetry(i) ==
  /\ g[i].pc = "started" /\ ~crashed
  /\ \E r \in 1..Len(Responses) :
       g' = [g EXCEPT ![i].pc = IF Responses[r].err # "nil" THEN "started" ELSE "got",
                      ![i].resp = r, ![i].fetched = urlParse(g[i].addr).raw]
  /\ gets' = [gets EXCEPT ![i] = Append(@, client)]
  /\ UNCHANGED <<Urls, ResponseTimeout, client, created, lastCreate, npc,
                 nidx, wg, nacc, nret, dying, crashed>>

\* The goroutine of entry i: n.client.Get(addr.String()).
GoGet(i) ==
  /\ g[i].pc = "started" /\ ~crashed
  /\ \E r \in 1..Len(Responses) :
       g' = [g EXCEPT ![i].pc = "got", ![i].resp = r,
                      ![i].fetched = urlParse(g[i].addr).raw]
  /\ gets' = [gets EXCEPT ![i] = Append(@, client)]
  /\ UNCHANGED <<Urls, ResponseTimeout, client, created, lastCreate, npc,
                 nidx, wg, nacc, nret, dying, crashed>>

\* The goroutine of entry i: the rest of gatherURL, whose metrics go to the
\* accumulator, and acc.AddError of what it returns; or its panic.
GoFinish(i) ==
  /\ g[i].pc = "got" /\ ~crashed
  /\ \E o \in Orders :
       \E res \in {gatherURL(urlParse(g[i].addr), Responses[g[i].resp],
                             <<o, o, o, o, o>>)} :
          IF res.panic
          THEN /\ g' = [g EXCEPT ![i].pc = "panicking"]
               /\ nacc' = [nacc EXCEPT ![i] = @ \o MetricEntries(res.out)]
          ELSE /\ g' = [g EXCEPT ![i].pc = "handed", ![i].err = res.err]
               /\ nacc' = [nacc EXCEPT ![i] = @ \o MetricEntries(res.out)
                                                \o <<ErrorEntry(res.err)>>]
  /\ UNCHANGED <<Urls, ResponseTimeout, client, created, lastCreate, npc,
                 nidx, wg, gets, nret, dying, crashed>>

\* The goroutine of entry i: the deferred wg.Done(), which also runs when the
\* goroutine panics.
GoDone(i) ==
  /\ g[i].pc \in {"handed", "panicking"} /\ ~crashed
  /\ wg' = wg - 1
  /\ g' = [g EXCEPT ![i].pc = IF g[i].pc = "handed" THEN "done" ELSE "panicked"]
  /\ dying' = (dying \/ g[i].pc = "panicking")
  /\ UNCHANGED <<Urls, ResponseTimeout, client, created, lastCreate, npc,
                 nidx, gets, nacc, nret, crashed>>

\* A panic nothing recovers ends the process once the deferred calls of the
\* panicking goroutine have run.
Crash ==
  /\ dying /\ ~crashed
  /\ crashed' = TRUE
  /\ UNCHANGED <<Urls, ResponseTimeout, client, created, lastCreate, npc,
                 nidx, wg, g, gets, nacc, nret, dying>>

\* ---------------------------------------------------------- status.gather
\* gatherStatusURL decodes the document.
StDecode ==
  /\ spc = 0
  /\ sstatus' = decodeStatus(sdoc)
  /\ spc' = 1
  /\ UNCHANGED <<sdoc, spanic, sacc, stags>>

BaseTags == getTags(urlParse(UrlA))

\* status.gather calls its next method.
StSection ==
  /\ spc \in 1..NumSections /\ ~spanic
  /\ \E o1 \in Orders, o2 \in Orders :
       \E res \in {gatherSection(spc, sstatus, stags, <<o1, o1, o1, o1, o2>>)} :
          /\ sacc' = sacc \o res.out
          /\ stags' = res.tags
          /\ spanic' = res.panic
          /\ spc' = IF res.panic THEN spc ELSE spc + 1
  /\ UNCHANGED <<sdoc, sstatus>>

vars == <<iptVars, parseVars, ngxVars, statusVars>>

InitIpt ==
  /\ Table \in Tables
  /\ Chains \in UNION {[1..k -> ChainNames] : k \in 0..MaxChains}
  /\ IptIdle /\ ParseIdle /\ NgxIdle /\ StatusIdle

NextIpt ==
  \/ IptGather /\ UNCHANGED <<parseVars, ngxVars, statusVars>>
  \/ IptChain /\ UNCHANGED <<parseVars, ngxVars, statusVars>>
  \/ IptReturn /\ UNCHANGED <<parseVars, ngxVars, statusVars>>

SpecIpt == InitIpt /\ [][NextIpt]_vars

InitParse ==
  /\ Table = "filter" /\ Chains = <<>> /\ IptIdle /\ NgxIdle /\ StatusIdle
  /\ pdata \in ParseInputs /\ ppc = "ready" /\ pres = NoParse

NextParse == Parse /\ UNCHANGED <<iptVars, ngxVars, statusVars>>

SpecIptParse == InitParse /\ [][NextParse]_vars

InitNgx ==
  /\ Urls \in UNION {[1..k -> UrlEntries] : k \in 0..MaxUrls}
  /\ ResponseTimeout \in {0, DefaultTimeout}
  /\ NgxFresh
  /\ Table = "" /\ Chains = <<>> /\ IptIdle /\ ParseIdle /\ StatusIdle

NextNgx ==
  \/ NgxGather /\ UNCHANGED <<iptVars, parseVars, statusVars>>
  \/ NgxLoop /\ UNCHANGED <<iptVars, parseVars, statusVars>>
  \/ NgxWait /\ UNCHANGED <<iptVars, parseVars, statusVars>>
  \/ \E i \in 1..Len(Urls) : GoGet(i) /\ UNCHANGED <<iptVars, parseVars, statusVars>>
  \/ \E i \in 1..Len(Urls) : GoFinish(i) /\ UNCHANGED <<iptVars, parseVars, statusVars>>
  \/ \E i \in 1..Len(Urls) : GoDone(i) /\ UNCHANGED <<iptVars, parseVars, statusVars>>
  \/ Crash /\ UNCHANGED <<iptVars, parseVars, statusVars>>

SpecNginx == InitNgx /\ [][NextNgx]_vars

InitStatus ==
  /\ \E p \in 1..Len(ProcessesParts), s \in 1..Len(SslParts), z \in 1..Len(ZoneParts),
        u \in 1..Len(UpstreamParts), c \in 1..Len(CacheParts), t \in 1..Len(StreamParts) :
       sdoc = DocOf(p, s, z, u, c, t)
  /\ sstatus = EmptyMap /\ spc = 0 /\ spanic = FALSE /\ sacc = <<>>
  /\ stags = BaseTags
  /\ Table = "" /\ Chains = <<>> /\ IptIdle /\ ParseIdle /\ NgxIdle

NextStatus ==
  \/ StDecode /\ UNCHANGED <<iptVars, parseVars, ngxVars>>
  \/ StSection /\ UNCHANGED <<iptVars, parseVars, ngxVars>>

SpecStatus == InitStatus /\ [][NextStatus]_vars
\* ------------------------------------------------------------------ claims
Entries == 1..Len(Urls)
Parses(i) == urlParse(Urls[i]).err = "nil"
MetricsOf(i) == SelectSeq(nacc[i], LAMBDA e : e.kind = "metric")
ErrorsOf(i) == SelectSeq(nacc[i], LAMBDA e : e.kind = "error" /\ e.err # "nil")
ReturnedNil == npc = "returned" /\ nret = "nil"

\* C1: Gather returns only after every goroutine it started has finished its
\* gatherURL call and handed its result (metrics and error) to the accumulator.
C1_WaitBarrier ==
  ReturnedNil =>
    \A i \in Entries :
       /\ g[i].pc \in {"none", "done"}
       /\ g[i].pc = "done" =>
            /\ nacc[i] # <<>>
            /\ nacc[i][Len(nacc[i])] = ErrorEntry(g[i].err)

\* C2: the HTTP client is created at most once and re-used by every GET of
\* every later Gather, and it never goes back to nil; a Gather in which
\* createHTTPClient fails returns that error, starts no goroutine, hands
\* nothing to the accumulator and leaves the client nil.
C2_LazyClient ==
  /\ created <= 1
  /\ client = created
  /\ \A i \in Entries : \A k \in 1..Len(gets[i]) : gets[i][k] = 1
  /\ (npc = "loop" \/ ReturnedNil) => client # 0
  /\ (lastCreate = "none" /\ npc # "idle") => created = 1
  /\ lastCreate = "failed" =>
       /\ npc = "returned" /\ nret \notin {"nil", "none"}
       /\ client = 0
       /\ \A i \in Entries : g[i].pc = "none" /\ gets[i] = <<>> /\ nacc[i] = <<>>

\* A Gather that found the client of an earlier Gather has used it for a GET.
C2_Witness ==
  /\ lastCreate = "none" /\ ReturnedNil
  /\ \E i \in Entries : gets[i] = <<1>>

\* C3: Iptables.Gather invokes the lister once per configured chain, in order;
\* each failing pass leaves exactly one accumulator error, the other passes
\* their metrics, and Gather returns nil.
PassFailed(k) == ~ilog[k].listed \/ ilog[k].res.err # "nil"
RECURSIVE MetricsLogged(_)
MetricsLogged(k) ==
  IF k = 0 THEN 0
  ELSE MetricsLogged(k - 1) + (IF ilog[k].listed THEN Len(ilog[k].res.metrics) ELSE 0)
C3_BestEffort ==
  /\ ipc = "returned" => iret = "nil"
  /\ Len(icalls) <= Len(Chains)
  /\ icalls = [k \in 1..Len(icalls) |-> <<Table, Chains[k]>>]
  /\ Len(ilog) = Len(icalls)
  /\ (ipc = "returned" /\ Table # "" /\ Len(Chains) > 0) => Len(icalls) = Len(Chains)
  /\ Len(SelectSeq(iacc, LAMBDA e : e.kind = "error"))
       = Cardinality({k \in 1..Len(ilog) : PassFailed(k)})
  /\ Len(SelectSeq(iacc, LAMBDA e : e.kind = "metric")) = MetricsLogged(Len(ilog))

\* The lister failed for the first chain and the second chain gave a metric.
C3_Witness ==
  /\ ipc = "returned" /\ Len(ilog) = 2
  /\ ~ilog[1].listed
  /\ ilog[2].listed /\ ilog[2].res.metrics # <<>>

\* C4 as stated: within one Gather call each entry of Urls that parses causes
\* exactly one HTTP GET, and an entry that does not parse causes none.
C4_Original ==
  npc = "returned" =>
    \A i \in Entries : Len(gets[i]) = (IF Parses(i) THEN 1 ELSE 0)

\* C4 amended: no entry causes more than one GET and an entry that does not
\* parse causes none; when Gather returns nil every entry that parses has
\* caused exactly one GET; when createHTTPClient fails there is no GET.
C4_NoRetry ==
  /\ \A i \in Entries : Len(gets[i]) <= 1
  /\ \A i \in Entries : ~Parses(i) => gets[i] = <<>>
  /\ ReturnedNil => \A i \in Entries : Parses(i) => Len(gets[i]) = 1
  /\ lastCreate = "failed" => \A i \in Entries : gets[i] = <<>>

\* Gather returned after one GET that failed and with an entry that does not parse.
C4_Witness ==
  /\ ReturnedNil
  /\ \E i \in Entries :
        Parses(i) /\ Len(gets[i]) = 1 /\ Responses[g[i].resp].err # "nil"
  /\ \E i \in Entries : ~Parses(i)

\* The Content-Type, cut at its first ';', is application/json.
CtIsJson(ct) ==
  \/ ct = AppJson
  \/ /\ Len(ct) > Len(AppJson)
     /\ SubSeq(ct, 1, Len(AppJson)) = AppJson
     /\ ct[Len(AppJson) + 1] = ";"
RespOK(r) ==
  r.err = "nil" /\ r.StatusCode = 200 /\ CtIsJson(r.ContentType) /\ r.Body.valid

\* C5: a metric is emitted for a URL only after its GET succeeded with status
\* 200, Content-Type application/json and a body that decodes; when any of
\* these fails, gatherURL returns one error and no metric is emitted.
C5_FetchDecodeEmit ==
  \A i \in Entries :
     /\ MetricsOf(i) # <<>> =>
          /\ g[i].pc \notin {"none", "started"}
          /\ RespOK(Responses[g[i].resp])
     /\ (g[i].pc \in {"handed", "done"} /\ ~RespOK(Responses[g[i].resp])) =>
          /\ g[i].err # "nil"
          /\ nacc[i] = <<ErrorEntry(g[i].err)>>
     /\ (g[i].pc \in {"handed", "done"} /\ RespOK(Responses[g[i].resp])) =>
          /\ g[i].err = "nil"
          /\ ErrorsOf(i) = <<>>

\* A response of type "application/json; charset=utf-8" gave metrics.
C5_Witness ==
  \E i \in Entries :
     /\ g[i].pc = "done"
     /\ Responses[g[i].resp].ContentType = CtJsonCharset
     /\ MetricsOf(i) # <<>>

\* C6: whichever optional sections a decoded status document lacks,
\* status.gather completes without a nil dereference.
C6_NoNilDereference == ~spanic

\* C7 as stated: errParse and no metric when the first line is no chain line
\* or the second no header; nil and no metric for fewer than three lines.
C7_Original ==
  ppc = "done" =>
    LET lines == SplitLines(pdata)
    IN /\ (\/ ~chainNameRe(lines[1]).ok
           \/ Len(lines) >= 2 /\ ~fieldsHeaderRe(lines[2]))
          => pres = [err |-> errParse, metrics |-> <<>>, examined |-> 0]
       /\ Len(lines) < 3 => pres = [err |-> "nil", metrics |-> <<>>, examined |-> 0]

\* C7 amended: for a listing of at least three lines, errParse and no metric
\* when the first line is no chain line or the second no header; nil and no
\* metric for fewer than three lines; no rule line is examined in these cases.
C7_ParseBeforeEmit ==
  ppc = "done" =>
    LET lines == SplitLines(pdata)
    IN /\ (/\ Len(lines) >= 3
           /\ ~chainNameRe(lines[1]).ok \/ ~fieldsHeaderRe(lines[2]))
          => pres = [err |-> errParse, metrics |-> <<>>, examined |-> 0]
       /\ Len(lines) < 3 => pres = [err |-> "nil", metrics |-> <<>>, examined |-> 0]

\* A bad header above a rule line that matches: errParse, nothing emitted.
C7_Witness ==
  /\ ppc = "done"
  /\ Len(SplitLines(pdata)) >= 3
  /\ chainNameRe(SplitLines(pdata)[1]).ok
  /\ ~fieldsHeaderRe(SplitLines(pdata)[2])
  /\ valuesRe(SplitLines(pdata)[3]).ok
  /\ pres.err = errParse

\* The rule line matches valuesRe and both counters fit 64 bits.
Counts(line) ==
  /\ valuesRe(line).ok
  /\ ParseUint(valuesRe(line).pkts).ok
  /\ ParseUint(valuesRe(line).bytes).ok

\* C8: after a valid chain line and header, one "iptables" metric per rule
\* line that matches the pattern with both counters within 64 bits, in the
\* order of the lines; the other lines are skipped without error.
C8_RuleLines ==
  (/\ ppc = "done"
   /\ Len(SplitLines(pdata)) >= 3
   /\ chainNameRe(SplitLines(pdata)[1]).ok
   /\ fieldsHeaderRe(SplitLines(pdata)[2])) =>
    \E lines \in {SplitLines(pdata)} :
      \E good \in {{i \in 3..Len(lines) : Counts(lines[i])}} :
        /\ pres.err = "nil"
        /\ pres.examined = Len(lines) - 2
        /\ Len(pres.metrics) = Cardinality(good)
        /\ \A i \in good :
             \E k \in {1 + Cardinality({j \in good : j < i})} :
               \E m \in {valuesRe(lines[i])} :
                 /\ pres.metrics[k].measurement = "iptables"
                 /\ pres.metrics[k].fields.pkts = StripZeros(m.pkts)
                 /\ pres.metrics[k].fields.bytes = StripZeros(m.bytes)
                 /\ pres.metrics[k].tags.target = m.target
                 /\ pres.metrics[k].tags.ruleid = m.comment
                 /\ pres.metrics[k].tags.chain = chainNameRe(lines[1]).name
                 /\ pres.metrics[k].tags.table = Table

\* A line whose pkts exceeds 2^64 - 1 was passed over and the next line emitted.
C8_Witness ==
  /\ ppc = "done"
  /\ Len(SplitLines(pdata)) = 4
  /\ chainNameRe(SplitLines(pdata)[1]).ok
  /\ fieldsHeaderRe(SplitLines(pdata)[2])
  /\ valuesRe(SplitLines(pdata)[3]).ok
  /\ ~ParseUint(valuesRe(SplitLines(pdata)[3]).pkts).ok
  /\ Counts(SplitLines(pdata)[4])
  /\ Len(pres.metrics) = 1

\* C9 as stated: an entry that does not parse causes exactly one accumulator
\* error and no goroutine, every other entry is fetched, Gather returns nil.
C9_Original ==
  npc = "returned" =>
    /\ nret = "nil"
    /\ \A i \in Entries :
         IF Parses(i) THEN Len(gets[i]) = 1
         ELSE g[i].pc = "none" /\ Len(nacc[i]) = 1 /\ nacc[i][1].kind = "error"

\* C9 amended: Gather returns nil unless createHTTPClient failed; an entry
\* that does not parse has no goroutine and, once the loop has passed it,
\* exactly one accumulator error; when Gather returns nil every other entry
\* has been fetched.
C9_ParseErrorsSkipped ==
  /\ npc = "returned" => (nret = "nil" \/ lastCreate = "failed")
  /\ \A i \in Entries :
       ~Parses(i) =>
          /\ g[i].pc = "none"
          /\ nacc[i] = IF (npc = "loop" /\ nidx > i) \/ ReturnedNil
                       THEN <<ErrorEntry("unable to parse address")>> ELSE <<>>
  /\ ReturnedNil => \A i \in Entries : Parses(i) => Len(gets[i]) = 1 /\ g[i].pc # "none"

\* The first entry did not parse; the second was fetched, and its GET failed.
C9_Witness ==
  /\ ReturnedNil /\ Len(Urls) = 2
  /\ ~Parses(1) /\ Parses(2)
  /\ Len(gets[2]) = 1 /\ g[2].err # "nil"

\* The number of metrics of a measurement, and the place of a measurement in
\* the order of the sections.
Count(name) == Cardinality({k \in 1..Len(sacc) : sacc[k].measurement = name})
Rank(name) ==
  CASE name = "nginx_plus_processes" -> 1
    [] name = "nginx_plus_connections" -> 2
    [] name = "nginx_plus_ssl" -> 3
    [] name = "nginx_plus_requests" -> 4
    [] name = "nginx_plus_zone" -> 5
    [] name \in {"nginx_plus_upstream", "nginx_plus_upstream_peer"} -> 6
    [] name = "nginx_plus_cache" -> 7
    [] OTHER -> 8
RECURSIVE PeersIn(_, _)
PeersIn(ups, names) ==
  IF names = {} THEN 0
  ELSE LET n == CHOOSE x \in names : TRUE
       IN Len(JArr(ups[n], "peers")) + PeersIn(ups, names \ {n})

\* C10: for a decoded document status.gather emits, in the order of the
\* sections, one metric for each of processes, connections, ssl and requests,
\* one per server zone, one per upstream and per peer, one per cache, one per
\* stream server zone and one per stream upstream and per peer of it.
C10_SectionsAndCounts ==
  (spc = NumSections + 1 \/ spanic) =>
    /\ \A j, k \in 1..Len(sacc) :
          j < k => Rank(sacc[j].measurement) <= Rank(sacc[k].measurement)
    /\ Count("nginx_plus_processes") = 1
    /\ Count("nginx_plus_connections") = 1
    /\ Count("nginx_plus_ssl") = 1
    /\ Count("nginx_plus_requests") = 1
    /\ Count("nginx_plus_zone") = Cardinality(DOMAIN JObj(sdoc, "server_zones"))
    /\ Count("nginx_plus_upstream") = Cardinality(DOMAIN JObj(sdoc, "upstreams"))
    /\ Count("nginx_plus_upstream_peer")
         = PeersIn(JObj(sdoc, "upstreams"), DOMAIN JObj(sdoc, "upstreams"))
    /\ Count("nginx_plus_cache") = Cardinality(DOMAIN JObj(sdoc, "caches"))
    /\ Count("nginx.stream.zone")
         = Cardinality(DOMAIN JObj(JObj(sdoc, "stream"), "server_zones"))
    /\ Count("nginx_plus_stream_upstream")
         = Cardinality(DOMAIN JObj(JObj(sdoc, "stream"), "upstreams"))
    /\ Count("nginx_plus_stream_upstream_peer")
         = PeersIn(JObj(JObj(sdoc, "stream"), "upstreams"),
                   DOMAIN JObj(JObj(sdoc, "stream"), "upstreams"))

\* The metrics of one measurement whose tag k is n, in the order of emission.
MetricsTagged(name, k, n) ==
  SelectSeq(sacc, LAMBDA m : m.measurement = name /\ m.tags[k] = n)
\* Field k is among fields exactly when the document object o has key dk, and
\* then with the document's value.
FieldIffKey(fields, k, o, dk) ==
  /\ (k \in DOMAIN fields) <=> Has(o, dk)
  /\ Has(o, dk) => fields[k] = o[dk]
\* Queue field k is there exactly when the upstream has a "queue" object, with
\* the value of its member dk (0 for a member the object lacks).
QueueFieldIffQueue(fields, k, up, dk) ==
  /\ (k \in DOMAIN fields) <=> Has(up, "queue")
  /\ Has(up, "queue") => fields[k] = JInt(up["queue"], dk)

TagsOfUrl(u) ==
  CASE u = UrlA -> [server |-> <<"a">>, port |-> <<"8", "0", "8", "0">>]
    [] u = UrlB -> [server |-> <<"b">>, port |-> <<"4", "4", "3">>]

\* C12: each goroutine fetches the URL of the entry it was started for, and
\* every metric that goroutine emits carries the server and port of that URL.
C12_OwnUrlAndTags ==
  \A i \in Entries :
     /\ g[i].pc \notin {"none", "started"} => g[i].fetched = Urls[i]
     /\ \A k \in 1..Len(MetricsOf(i)) :
          /\ MetricsOf(i)[k].metric.tags["server"] = TagsOfUrl(Urls[i]).server
          /\ MetricsOf(i)[k].metric.tags["port"] = TagsOfUrl(Urls[i]).port

\* Two different URLs; the goroutine of the second has emitted its metrics
\* and ended while the goroutine of the first has not yet sent its GET.
C12_Witness ==
  /\ Len(Urls) = 2 /\ Parses(1) /\ Parses(2) /\ Urls[1] # Urls[2]
  /\ g[1].pc = "started"
  /\ g[2].pc = "done" /\ MetricsOf(2) # <<>>

\* The sets of keys a metric of this measurement may hold besides the base tags.
OwnKeys(name) ==
  CASE name \in {"nginx_plus_zone", "nginx.stream.zone"} -> {{"zone"}}
    [] name \in {"nginx_plus_upstream", "nginx_plus_stream_upstream"} -> {{"upstream"}}
    [] name = "nginx_plus_upstream_peer" ->
         {{"upstream", "upstream_address"}, {"upstream", "upstream_address", "id"}}
    [] name = "nginx_plus_stream_upstream_peer" -> {{"upstream", "upstream_address", "id"}}
    [] name = "nginx_plus_cache" -> {{"cache"}}
    [] OTHER -> {{}}
\* The measurement of the metric a peer metric is nested under.
ParentOf(name) ==
  IF name = "nginx_plus_upstream_peer" THEN "nginx_plus_upstream"
  ELSE "nginx_plus_stream_upstream"
IsPeer(name) == name \in {"nginx_plus_upstream_peer", "nginx_plus_stream_upstream_peer"}

\* C13: the tag map given to status.gather keeps exactly its entries; every
\* metric holds each base tag unchanged and, besides, only the keys of its own
\* kind; a peer metric has the upstream tag of the upstream it follows.
C13_TagsFrame ==
  /\ stags = BaseTags
  /\ \A k \in 1..Len(sacc) :
       \E m \in {sacc[k]} :
         /\ \A t \in DOMAIN BaseTags : t \in DOMAIN m.tags /\ m.tags[t] = BaseTags[t]
         /\ (DOMAIN m.tags \ DOMAIN BaseTags) \in OwnKeys(m.measurement)
         /\ IsPeer(m.measurement) =>
              \E j \in 1..(k - 1) :
                 /\ sacc[j].measurement = ParentOf(m.measurement)
                 /\ sacc[j].tags["upstream"] = m.tags["upstream"]
                 /\ \A i \in (j + 1)..(k - 1) : sacc[i].measurement = m.measurement

\* gather is over and has emitted zone, upstream, peer and cache metrics.
C13_Witness ==
  /\ spc = NumSections + 1
  /\ \A name \in {"nginx_plus_zone", "nginx_plus_upstream", "nginx_plus_upstream_peer",
                   "nginx_plus_cache", "nginx_plus_stream_upstream_peer"} :
        \E k \in 1..Len(sacc) : sacc[k].measurement = name
  /\ \E j, k \in 1..Len(sacc) :
        /\ sacc[j].measurement = "nginx_plus_upstream_peer"
        /\ sacc[k].measurement = "nginx_plus_upstream_peer"
        /\ sacc[j].tags["upstream"] # sacc[k].tags["upstream"]
====
